---- MODULE Spec2Model ----
(***************************************************************************)
(* The agent-environment interaction protocol of the repository:          *)
(* ToolCallingAgent.run (src/agents/tool_calling_agent.py) driving an Env  *)
(* through reset/step, with the completion call as the model client and    *)
(* convert_message_to_action as the action decoder.                        *)
(*                                                                         *)
(* Rewards are in tenths (8 stands for 0.8). Costs are in units of 1e-9    *)
(* dollars, so that round(agent_cost, 8) is a rounding to a multiple of    *)
(* 10 units.                                                               *)
(***************************************************************************)
EXTENDS Integers, Sequences, FiniteSets, TLC

VARIABLES
    pc,             \* position of run: "start", "complete", "step", "return", "returned", "raised"
    task_index,     \* argument of run
    max_num_steps,  \* argument of run
    turn,           \* number of finished iterations of the for loop
    attempts,       \* failed completion attempts of the current turn
    res,            \* the response of the last successful completion (NoRes before)
    messages,       \* the history
    agent_cost,     \* accumulated cost
    reward,         \* latest reward
    env_info,       \* merged info mapping
    result,         \* the AgentRunResult returned (NoResult before)
    envState,       \* the environment's state
    envReward,      \* the reward the environment reported last
    stepLog,        \* history variable: one record per env.step call, in order
    tools_info,     \* self.tools_info, the catalogue the agent was constructed with
    lastReset,      \* history variable: what the latest reset that returned was asked
                    \* and returned, and whether a step followed it
    runs,           \* history variable: the number of calls of run so far
    toolCall,       \* the latest invocation of a capability: what it was given and
                    \* what came of it (NoToolCall before)
    peer            \* a second call of run on the same agent object, with an
                    \* environment of its own (NoPeer when there is none)

\* the run, its agent object and its environment
runVars == <<pc, task_index, max_num_steps, turn, attempts, res, messages, agent_cost,
             reward, env_info, result, envState, envReward, stepLog, tools_info, lastReset,
             runs>>

vars == <<runVars, toolCall, peer>>

---------------------------------------------------------------------------
(* Bounds of the model *)

\* run is explored for max_num_steps in 0..MaxSteps
MaxSteps == 2
\* an assistant turn proposes 0..MaxCalls capability invocations
MaxCalls == 2
\* at most MaxFail failed completion attempts are explored per turn
MaxFail == 2
\* the task set holds the indices 0..NumTasks-1
NumTasks == 1
\* at most MaxRuns calls of run are explored on one environment
MaxRuns == 2
\* a query given to the validator is written with at most MaxFragments fragments
MaxFragments == 2

---------------------------------------------------------------------------
(* Values *)

\* the empty mapping
EmptyInfo == [k \in {} |-> "none"]

\* no response yet, no AgentRunResult yet
NoRes == [content |-> "none", tool_calls |-> <<>>, cost |-> -1,
          given |-> <<>>, tools |-> <<>>]
NoResult == [reward |-> -1, messages |-> <<>>, agent_cost |-> -1, info |-> EmptyInfo]

\* a capability of the catalogue handed to Env.__init__
KnownTool == "sql_db_query"
\* a further capability of the catalogue, used for the invocations after the first
TailTool == "sql_db_schema"
\* a name no capability of the catalogue has
UnknownTool == "no_such_tool"
\* the name of a malformed invocation (the name is missing)
NoName == "none"

\* the names of the tools MimicIVEnv hands to Env.__init__, in order
Catalogue ==
    << "sql_db_list_tables", "sql_db_schema", "value_substring_search", "sql_db_query",
       "clinical_term_mapper", "analyze_user_query", "smart_schema_assistant",
       "query_validator", "query_optimizer", "execution_helper" >>

ToolNames == { Catalogue[i] : i \in DOMAIN Catalogue }

\* no reset has returned yet
NoReset == [index |-> -1, observation |-> "none", info |-> EmptyInfo, stepped |-> FALSE,
            seeded |-> [role |-> "none", content |-> "none"], repeat |-> FALSE]

\* no capability was invoked yet
NoToolCall == [op |-> "none", tool |-> "none", given |-> "none", outcome |-> "none"]

\* run is not called a second time on the agent object
NoPeer == [pc |-> "none", action |-> "none", tools |-> <<>>, trimmed |-> FALSE]

RESPOND == "respond"

TaskInputs == 0 .. NumTasks
ValidTasks == 0 .. (NumTasks - 1)

Rewards == {0, 8}
\* response_cost of a completion that returned message m, in units of 1e-9 dollars:
\* the provider bills a base price and the tokens of each proposed invocation
ResponseCost(m) == 4 + 3 * Len(m.tool_calls)
Contents == {"text"}

\* info mappings an environment step reports
StepInfos ==
    { [k \in {"source"} |-> "user"],
      [k \in {"task", "source"} |-> IF k = "task" THEN "rescored" ELSE "tool"] }

---------------------------------------------------------------------------
(* The model's assistant turns: what res.choices[0].message.model_dump() holds *)

\* the k proposed invocations of a turn whose first invocation names `first`
Calls(first, k) ==
    [i \in 1 .. k |->
        [id |-> i, name |-> IF i = 1 THEN first ELSE TailTool, arguments |-> i]]

\* the turns explored: no invocation; 1..MaxCalls invocations, the first one well-formed
\* or malformed; one invocation of a capability the catalogue does not have
ModelTurns ==
    { [role |-> "assistant", content |-> c, tool_calls |-> <<>>] : c \in Contents }
    \cup
    { [role |-> "assistant", content |-> c, tool_calls |-> Calls(n, k)] :
        c \in Contents, n \in {KnownTool, NoName}, k \in 1 .. MaxCalls }
    \cup
    { [role |-> "assistant", content |-> c, tool_calls |-> Calls(UnknownTool, 1)] :
        c \in Contents }

---------------------------------------------------------------------------
(* The action decoder, src.utils.convert_message_to_action *)

\* a decoder that takes the last proposed invocation
convert_message_to_action_Last(next_message) ==
    IF Len(next_message.tool_calls) >= 1 /\ next_message.tool_calls[1].name # NoName
    THEN [name |-> next_message.tool_calls[Len(next_message.tool_calls)].name,
          kind |-> "invoke",
          arguments |-> next_message.tool_calls[Len(next_message.tool_calls)].arguments,
          content |-> "none"]
    ELSE [name |-> RESPOND,
          kind |-> "respond",
          arguments |-> 0,
          content |-> next_message.content]

\* a decoder that takes the first proposed invocation as it is, named or not
convert_message_to_action_Unchecked(next_message) ==
    IF Len(next_message.tool_calls) >= 1
    THEN [name |-> next_message.tool_calls[1].name,
          kind |-> "invoke",
          arguments |-> next_message.tool_calls[1].arguments,
          content |-> "none"]
    ELSE [name |-> RESPOND,
          kind |-> "respond",
          arguments |-> 0,
          content |-> next_message.content]

\* An Action is [name, kwargs]; Respond{text} is the action named "respond".
convert_message_to_action(next_message) ==
    IF Len(next_message.tool_calls) >= 1 /\ next_message.tool_calls[1].name # NoName
    THEN [name |-> next_message.tool_calls[1].name,
          kind |-> "invoke",
          arguments |-> next_message.tool_calls[1].arguments,
          content |-> "none"]
    ELSE [name |-> RESPOND,
          kind |-> "respond",
          arguments |-> 0,
          content |-> next_message.content]

---------------------------------------------------------------------------
(* The environment, src.envs.base.Env *)

TaskPrompt(i) == IF i = 0 THEN "request of task 0" ELSE "request of a later task"
TaskInfo(i) == [k \in {"task"} |-> IF i = 0 THEN "task 0" ELSE "a later task"]

Raised == [raised |-> TRUE, observation |-> "none", reward |-> 0, done |-> FALSE,
           info |-> EmptyInfo, failed |-> FALSE, state |-> "none"]

\* an environment whose user words the request anew once the environment was used
EnvReset_Rephrased(i) ==
    IF i \in ValidTasks
    THEN [raised |-> FALSE,
          observation |-> IF envState = "UNINITIALIZED" THEN TaskPrompt(i)
                          ELSE "request, rephrased",
          info |-> TaskInfo(i)]
    ELSE [raised |-> TRUE, observation |-> "none", info |-> EmptyInfo]

\* reset(task_index): the initial observation and info, or TaskNotFoundError
EnvReset(i) ==
    IF i \in ValidTasks
    THEN [raised |-> FALSE, observation |-> TaskPrompt(i), info |-> TaskInfo(i)]
    ELSE [raised |-> TRUE, observation |-> "none", info |-> EmptyInfo]

\* what invoking a capability returns: its result, or the text of its failure
ToolObservation(failed) == IF failed THEN "Error: invocation failed" ELSE "rows"

\* an environment that ends the episode on every action
EnvStep_DoneOnInvoke(action, prior) ==
    IF action.name \in ToolNames \cup {RESPOND}
    THEN { [raised |-> FALSE, observation |-> "user acknowledgment", reward |-> r,
            done |-> TRUE, info |-> i, failed |-> FALSE, state |-> "TERMINATED"] :
              r \in Rewards, i \in StepInfos }
    ELSE { Raised }

\* an environment that scores the episode on every action
EnvStep_ScoreOnInvoke(action, prior) ==
    IF action.name = RESPOND
    THEN { [raised |-> FALSE, observation |-> "user acknowledgment", reward |-> r,
            done |-> TRUE, info |-> i, failed |-> FALSE, state |-> "TERMINATED"] :
              r \in Rewards, i \in StepInfos }
    ELSE IF action.name \in ToolNames
    THEN { [raised |-> FALSE, observation |-> ToolObservation(f), reward |-> r,
            done |-> FALSE, info |-> i, failed |-> f, state |-> "ACTIVE"] :
              f \in BOOLEAN, i \in StepInfos, r \in Rewards }
    ELSE { Raised }

\* step(action) of an environment that reported `prior` as its last reward:
\* the set of its outcomes
EnvStep(action, prior) ==
    IF action.name = RESPOND
    THEN { [raised |-> FALSE, observation |-> "user acknowledgment", reward |-> r,
            done |-> TRUE, info |-> i, failed |-> FALSE, state |-> "TERMINATED"] :
              r \in Rewards, i \in StepInfos }
    ELSE IF action.name \in ToolNames
    THEN { [raised |-> FALSE, observation |-> ToolObservation(f), reward |-> prior,
            done |-> FALSE, info |-> i, failed |-> f, state |-> "ACTIVE"] :
              f \in BOOLEAN, i \in StepInfos }
    ELSE { Raised }

\* step(action) of an arbitrary Env: run takes any object with reset and step
AnyEnvStep(action, prior) ==
    { [raised |-> FALSE,
       observation |-> IF action.name = RESPOND THEN "user reply" ELSE ToolObservation(f),
       reward |-> r, done |-> d, info |-> i, failed |-> f,
       state |-> IF d THEN "TERMINATED" ELSE "ACTIVE"] :
         r \in Rewards, d \in BOOLEAN, i \in StepInfos,
         f \in IF action.name \in ToolNames THEN BOOLEAN ELSE {FALSE} }
    \cup { Raised }

\* the step of the environment run is given: the one of the specification ("spec"),
\* or any
EnvStepOf(env, action, prior) ==
    IF env = "spec" THEN EnvStep(action, prior) ELSE AnyEnvStep(action, prior)

---------------------------------------------------------------------------
(* The capabilities, src/envs/mimic_iv/tools *)

\* what the model may propose as the value of an argument: a JSON string, number, null
ArgKinds == {"str", "int", "null"}

\* A capability: its name, its required parameters, whether the body of invoke is
\* inside try/except Exception, and the parameters invoke calls .lower() on.
ClinicalTermMapper ==
    [name |-> "clinical_term_mapper", params |-> {"medical_term"}, guarded |-> FALSE,
     lowered |-> {"medical_term"}]
QueryAnalyzer ==
    [name |-> "analyze_user_query", params |-> {"user_query"}, guarded |-> FALSE,
     lowered |-> {"user_query"}]
SmartSchemaAssistant ==
    [name |-> "smart_schema_assistant", params |-> {"query_intent"}, guarded |-> FALSE,
     lowered |-> {"query_intent"}]
QueryValidator ==
    [name |-> "query_validator", params |-> {"sql_query"}, guarded |-> FALSE,
     lowered |-> {"sql_query"}]
QueryOptimizer ==
    [name |-> "query_optimizer", params |-> {"failed_query", "error_message"},
     guarded |-> FALSE, lowered |-> {"failed_query", "error_message"}]
ExecutionHelper ==
    [name |-> "execution_helper", params |-> {"query_goal"}, guarded |-> FALSE,
     lowered |-> {"query_goal"}]
EnhancedQueryOptimizer ==
    [name |-> "enhanced_query_optimizer", params |-> {"failed_query", "error_message"},
     guarded |-> FALSE, lowered |-> {"failed_query", "error_message"}]
EnhancedExecutionHelper ==
    [name |-> "enhanced_execution_helper", params |-> {"query_goal"}, guarded |-> FALSE,
     lowered |-> {"query_goal"}]
ValueInspector ==
    [name |-> "value_inspector_tool", params |-> {"table", "column"}, guarded |-> TRUE,
     lowered |-> {}]

Capabilities ==
    { ClinicalTermMapper, QueryAnalyzer, SmartSchemaAssistant, QueryValidator,
      QueryOptimizer, ExecutionHelper, EnhancedQueryOptimizer, EnhancedExecutionHelper,
      ValueInspector }

\* invoke(**kwargs): "observation" when it returns a string, "raises" when an error
\* leaves it. A value that is no string has no .lower(): AttributeError.
invoke(cap, kwargs) ==
    IF cap.guarded THEN "observation"
    ELSE IF \E p \in cap.lowered : kwargs[p] # "str" THEN "raises"
    ELSE "observation"

\* EnhancedQueryOptimizer: what error_message.lower() may contain
ErrorMarkers ==
    { "ambiguous column name", "no such column", "no such table", "syntax error",
      "foreign key constraint", "near \"from\"" }

\* EnhancedQueryOptimizer._classify_error
ClassifyError(error_lower) ==
    IF "ambiguous column name" \in error_lower THEN "ambiguous_column"
    ELSE IF "no such column" \in error_lower THEN "missing_column"
    ELSE IF "no such table" \in error_lower THEN "missing_table"
    ELSE IF "syntax error" \in error_lower THEN "syntax_error"
    ELSE IF "foreign key constraint" \in error_lower THEN "foreign_key_error"
    ELSE IF "near \"from\"" \in error_lower THEN "sqlite_syntax"
    ELSE "other"

\* EnhancedQueryOptimizer._is_sqlite_specific; extract: 'extract(' in query.lower()
IsSqliteSpecific(error_lower, extract) ==
    "near \"from\"" \in error_lower \/ (extract /\ "syntax error" \in error_lower)

\* the if/elif chain of EnhancedQueryOptimizer.invoke: the one fix it applies, named
\* by the error class the fix is for
FixApplied(error_lower, extract) ==
    IF IsSqliteSpecific(error_lower, extract) THEN "sqlite_syntax"
    ELSE IF "ambiguous column name" \in error_lower THEN "ambiguous_column"
    ELSE IF "no such column" \in error_lower THEN "missing_column"
    ELSE IF "no such table" \in error_lower THEN "missing_table"
    ELSE IF "syntax error" \in error_lower THEN "syntax_error"
    ELSE IF "foreign key constraint" \in error_lower THEN "foreign_key_error"
    ELSE "other"

\* QueryValidator: a query is the set of the fragments it is written with
Fragments ==
    { "labevents.label", "LABEVENTS.LABEL", "admission_time", "procedures_icd.long_title",
      "chartevents.label", "inputevents.eventtime", "labevents", "d_labitems", "label",
      "procedures_icd", "d_icd_procedures", "title", "name", "admittime" }

\* str.lower() of a fragment
Lower(f) == IF f = "LABEVENTS.LABEL" THEN "labevents.label" ELSE f

\* needle in fragment, for the needles QueryValidator.invoke looks for
Occurs(needle, f) ==
    \/ needle = f
    \/ f = "labevents.label" /\ needle \in {"labevents", "label"}
    \/ f = "chartevents.label" /\ needle = "label"
    \/ f = "procedures_icd.long_title" /\ needle \in {"procedures_icd", "title"}

\* needle in query_lower
Contains(query, needle) == \E f \in query : Occurs(needle, Lower(f))

\* the checks of QueryValidator.invoke, in the order of the code
ValidatorRules ==
    << [type |-> "wrong_column", needle |-> "labevents.label",
        suggestion |-> "Use d_labitems.label"],
       [type |-> "wrong_column", needle |-> "admission_time",
        suggestion |-> "Use admissions.admittime"],
       [type |-> "wrong_column", needle |-> "procedures_icd.long_title",
        suggestion |-> "Use d_icd_procedures.long_title"],
       [type |-> "wrong_column", needle |-> "chartevents.label",
        suggestion |-> "Use d_items.label"],
       [type |-> "wrong_column", needle |-> "inputevents.eventtime",
        suggestion |-> "Use inputevents.starttime"],
       [type |-> "missing_join", needle |-> "labevents",
        suggestion |-> "Add: JOIN d_labitems"],
       [type |-> "missing_join", needle |-> "procedures_icd",
        suggestion |-> "Add: JOIN d_icd_procedures"] >>

\* the condition of a check on query_lower
RuleApplies(rule, query) ==
    IF rule.type = "wrong_column" THEN Contains(query, rule.needle)
    ELSE IF rule.needle = "labevents"
    THEN /\ Contains(query, "labevents")
         /\ ~Contains(query, "d_labitems")
         /\ Contains(query, "label")
    ELSE /\ Contains(query, "procedures_icd")
         /\ ~Contains(query, "d_icd_procedures")
         /\ (Contains(query, "title") \/ Contains(query, "name"))

\* the issues list: one entry per check that applies, appended in the order of the code
IssuesOf(query) == SelectSeq(ValidatorRules, LAMBDA rule : RuleApplies(rule, query))

\* a validator that calls a query valid when no column is wrong
IsValid_ColumnsOnly(issues) ==
    \A i \in 1 .. Len(issues) : issues[i].type # "wrong_column"

\* validation['is_valid'] = len(issues) == 0
IsValid(issues) == Len(issues) = 0

\* validation['suggestions']: [] unless issues, then the suggestion of each issue
SuggestionsOf(issues) ==
    IF Len(issues) > 0 THEN [i \in 1 .. Len(issues) |-> issues[i].suggestion] ELSE <<>>

---------------------------------------------------------------------------
(* ToolCallingAgent.run *)

\* self.instruction
Instruction == "TOOL_CALLING_INSTRUCTION Rules: rule"

SystemMessage == [role |-> "system", content |-> Instruction]
UserMessage(obs) == [role |-> "user", content |-> obs]

\* a run that adds the rewards up
LatchReward_Sum(old, new) == old + new

\* reward = env_response.reward
LatchReward(old, new) == new

\* a merge with the operands swapped, {**new, **env_info}: the first write wins
MergeInfo_FirstWins(acc, I) ==
    [k \in DOMAIN acc \cup DOMAIN I |-> IF k \in DOMAIN acc THEN acc[k] ELSE I[k]]

\* {**env_info, **env_response.info.model_dump()}
MergeInfo(acc, I) ==
    [k \in DOMAIN acc \cup DOMAIN I |-> IF k \in DOMAIN I THEN I[k] ELSE acc[k]]

\* next_message["tool_calls"][:1]
FirstOnly(tool_calls) == SubSeq(tool_calls, 1, 1)

\* a loop that records no reply after a Respond action
Recorded_NoReply(next_message, action, observation) ==
    IF action.name # RESPOND
    THEN << [next_message EXCEPT !.tool_calls = SubSeq(@, 1, 1)],
            [role |-> "tool",
             tool_call_id |-> next_message.tool_calls[1].id,
             name |-> next_message.tool_calls[1].name,
             content |-> observation] >>
    ELSE << next_message >>

\* a loop that records the reply before the assistant message
Recorded_ReplyFirst(next_message, action, observation) ==
    IF action.name # RESPOND
    THEN << [role |-> "tool",
             tool_call_id |-> next_message.tool_calls[1].id,
             name |-> next_message.tool_calls[1].name,
             content |-> observation],
            [next_message EXCEPT !.tool_calls = SubSeq(@, 1, 1)] >>
    ELSE << [role |-> "user", content |-> observation], next_message >>

\* the two messages one iteration appends to the history
Recorded(next_message, action, observation) ==
    IF action.name # RESPOND
    THEN LET trimmed == [next_message EXCEPT !.tool_calls = FirstOnly(@)]
         IN << trimmed,
               [role |-> "tool",
                tool_call_id |-> trimmed.tool_calls[1].id,
                name |-> trimmed.tool_calls[1].name,
                content |-> observation] >>
    ELSE << next_message, UserMessage(observation) >>

\* `for _ in range(max_num_steps)` after t finished iterations: the next completion,
\* or the return statement
ForLoop(t) == IF t < max_num_steps THEN "complete" ELSE "return"

\* a loop without the break on done
AfterIteration_NoBreak(t, action, env_response) == ForLoop(t)

\* a loop that also gives up when a capability reports a failure
AfterIteration_BreakOnError(t, action, env_response) ==
    IF env_response.done \/ env_response.failed THEN "return" ELSE ForLoop(t)

\* a loop that stops on the action tag: it breaks after every Respond action
AfterIteration_BreakOnRespond(t, action, env_response) ==
    IF env_response.done \/ action.name = RESPOND THEN "return" ELSE ForLoop(t)

\* `if env_response.done: break` at the end of iteration t, whose action was `action`
AfterIteration(t, action, env_response) ==
    IF env_response.done THEN "return" ELSE ForLoop(t)

\* a result that cuts the cost after the eighth decimal
Round8_Floor(c) == { (c \div 10) * 10 }

\* round(agent_cost, 8): the multiples of 10 units nearest to c (a tie falls on
\* either side, with the binary representation of the sum)
Round8(c) ==
    LET lo == (c \div 10) * 10
        r == c % 10
    IN IF r < 5 THEN {lo} ELSE IF r > 5 THEN {lo + 10} ELSE {lo, lo + 10}

\* the arguments and the locals of run, the agent object and the environment
InitRun ==
    /\ pc = "start"
    /\ task_index \in TaskInputs
    /\ max_num_steps \in 0 .. MaxSteps
    /\ turn = 0
    /\ attempts = 0
    /\ res = NoRes
    /\ messages = <<>>
    /\ agent_cost = 0
    /\ reward = 0
    /\ env_info = EmptyInfo
    /\ result = NoResult
    /\ envState = "UNINITIALIZED"
    /\ envReward = 0
    /\ stepLog = <<>>
    /\ tools_info = Catalogue
    /\ lastReset = NoReset
    /\ runs = 1

Init ==
    /\ InitRun
    /\ toolCall = NoToolCall
    /\ peer = NoPeer

\* lines 49-57: env.reset and the seeding of the history
Reset ==
    /\ pc = "start"
    /\ LET env_reset_res == EnvReset(task_index)
       IN IF env_reset_res.raised
          THEN /\ pc' = "raised"
               /\ UNCHANGED <<messages, env_info, reward, agent_cost, envState, envReward,
                              lastReset>>
          ELSE /\ agent_cost' = 0
               /\ env_info' = env_reset_res.info
               /\ reward' = 0
               /\ messages' = << SystemMessage, UserMessage(env_reset_res.observation) >>
               /\ envState' = "ACTIVE"
               /\ envReward' = 0
               /\ lastReset' = [index |-> task_index,
                                observation |-> env_reset_res.observation,
                                info |-> env_reset_res.info, stepped |-> FALSE,
                                seeded |-> messages'[2],
                                repeat |-> /\ lastReset.index = task_index
                                           /\ ~lastReset.stepped]
               /\ pc' = ForLoop(0)
    /\ UNCHANGED <<task_index, max_num_steps, turn, attempts, res, result, stepLog,
                   tools_info, runs,
                   toolCall, peer>>

\* a completion call that is given the seed of the history alone
CompletionInput_SeedOnly(msgs) == SubSeq(msgs, 1, 2)

\* completion(messages=messages, ...): the history the model is given
CompletionInput(msgs) == msgs

\* a completion call that is given the first tool alone
ToolsGiven_FirstOnly(tools) == SubSeq(tools, 1, 1)

\* completion(..., tools=self.tools_info, ...): the catalogue the model is given
ToolsGiven(tools) == tools

\* a retry loop that bills the failed attempt
OnCompletionFailure_Charge(msgs, cost, rew, info) == <<msgs, cost + 1, rew, info>>

\* what the except clause of the retry loop changes of the run's data
OnCompletionFailure(msgs, cost, rew, info) == <<msgs, cost, rew, info>>

\* a retry loop that gives up: the error of the completion call ends run
OnCompletionRaise_GiveUp == "raised"

\* where run is after completion raised: `except Exception` catches every error, sleeps
\* 3 seconds and `while True` calls completion again, whatever the number of attempts
OnCompletionRaise == "complete"

\* lines 59-71: completion raises; the except clause sleeps and the loop retries
CompletionRaises ==
    /\ pc = "complete"
    /\ attempts < MaxFail
    /\ attempts' = attempts + 1
    /\ LET kept == OnCompletionFailure(messages, agent_cost, reward, env_info)
       IN /\ messages' = kept[1]
          /\ agent_cost' = kept[2]
          /\ reward' = kept[3]
          /\ env_info' = kept[4]
    /\ pc' = OnCompletionRaise
    /\ UNCHANGED <<task_index, max_num_steps, turn, res, result,
                   envState, envReward, stepLog, tools_info, lastReset, runs,
                   toolCall, peer>>

\* a retry loop that goes on to decode a response whose cost it could not read
OnCostUnreadable_Decode == "step"

\* where run is after the += of line 67 raised: in the except clause, then at the
\* completion call again
OnCostUnreadable == "complete"

\* lines 59-71: completion returns, but res._hidden_params["response_cost"] cannot be
\* added (missing or not a number): the += raises inside the try, before the break
CostUnreadable ==
    /\ pc = "complete"
    /\ attempts < MaxFail
    /\ \E m \in ModelTurns :
          res' = [content |-> m.content, tool_calls |-> m.tool_calls, cost |-> -1,
                  given |-> CompletionInput(messages), tools |-> ToolsGiven(tools_info)]
    /\ attempts' = attempts + 1
    /\ LET kept == OnCompletionFailure(messages, agent_cost, reward, env_info)
       IN /\ messages' = kept[1]
          /\ agent_cost' = kept[2]
          /\ reward' = kept[3]
          /\ env_info' = kept[4]
    /\ pc' = OnCostUnreadable
    /\ UNCHANGED <<task_index, max_num_steps, turn, result,
                   envState, envReward, stepLog, tools_info, lastReset, runs,
                   toolCall, peer>>

\* lines 59-68: completion returns and its cost is added; break
CompletionSucceeds ==
    /\ pc = "complete"
    /\ \E m \in ModelTurns :
          /\ res' = [content |-> m.content, tool_calls |-> m.tool_calls,
                     cost |-> ResponseCost(m),
                     given |-> CompletionInput(messages),
                     tools |-> ToolsGiven(tools_info)]
          /\ agent_cost' = agent_cost + ResponseCost(m)
    /\ attempts' = 0
    /\ pc' = "step"
    /\ UNCHANGED <<task_index, max_num_steps, turn, messages, reward, env_info, result,
                   envState, envReward, stepLog, tools_info, lastReset, runs,
                   toolCall, peer>>

\* a loop that catches the error of env.step and goes on to the next turn
OnStepRaise_Swallow == "complete"

\* what run does when env.step raises: nothing catches it (line 74 is outside the try)
OnStepRaise == "raised"

\* a loop that rebuilds the history from its seed and the latest turn
Extend_LatestOnly(msgs, new) == SubSeq(msgs, 1, 2) \o new

\* messages.extend([...])
Extend(msgs, new) == msgs \o new

\* a trim that cuts the agent's own catalogue
AfterTrim_Catalogue(tools, action) ==
    IF action.name # RESPOND THEN SubSeq(tools, 1, 1) ELSE tools

\* self.tools_info after next_message["tool_calls"] = next_message["tool_calls"][:1]:
\* the assignment is to the dict model_dump() returned
AfterTrim(tools, action) == tools

\* lines 72-98: decode, env.step, latch the reward, merge the info, extend the history,
\* break on done, against environment env.
StepAndRecord(env) ==
    /\ pc = "step"
    /\ LET next_message == [role |-> "assistant", content |-> res.content,
                            tool_calls |-> res.tool_calls]
           action == convert_message_to_action(next_message)
       IN \E env_response \in EnvStepOf(env, action, envReward) :
            /\ stepLog' = Append(stepLog,
                   [message |-> next_message, action |-> action,
                    raised |-> env_response.raised,
                    observation |-> env_response.observation,
                    reward |-> env_response.reward, done |-> env_response.done,
                    info |-> env_response.info, failed |-> env_response.failed,
                    envBefore |-> envState, cost |-> res.cost,
                    given |-> res.given, tools |-> res.tools])
            /\ IF env_response.raised
               THEN /\ pc' = OnStepRaise
                    /\ IF pc' = "raised"
                       THEN UNCHANGED <<turn, reward, env_info, messages, envState, envReward,
                                        tools_info>>
                       ELSE /\ turn' = turn + 1
                            /\ UNCHANGED <<reward, env_info, messages, envState, envReward,
                                           tools_info>>
               ELSE /\ reward' = LatchReward(reward, env_response.reward)
                    /\ env_info' = MergeInfo(env_info, env_response.info)
                    /\ tools_info' = AfterTrim(tools_info, action)
                    /\ messages' = Extend(messages,
                           Recorded(next_message, action, env_response.observation))
                    /\ turn' = turn + 1
                    /\ envState' = env_response.state
                    /\ envReward' = env_response.reward
                    /\ pc' = AfterIteration(turn + 1, action, env_response)
    /\ lastReset' = [lastReset EXCEPT !.stepped = TRUE]
    /\ UNCHANGED <<task_index, max_num_steps, attempts, res, agent_cost, result, runs,
                   toolCall, peer>>

Step == StepAndRecord("spec")
StepAnyEnv == StepAndRecord("any")

\* lines 100-105: the AgentRunResult
Return ==
    /\ pc = "return"
    /\ \E c \in Round8(agent_cost) :
          result' = [reward |-> reward, messages |-> messages, agent_cost |-> c,
                     info |-> env_info]
    /\ pc' = "returned"
    /\ UNCHANGED <<task_index, max_num_steps, turn, attempts, res, messages, agent_cost,
                   reward, env_info, envState, envReward, stepLog, tools_info, lastReset, runs,
                   toolCall, peer>>

\* run against the environment of the specification
Next ==
    \/ Reset
    \/ CompletionRaises
    \/ CostUnreadable
    \/ CompletionSucceeds
    \/ Step
    \/ Return

Spec == Init /\ [][Next]_vars

\* run against an arbitrary environment
NextAnyEnv ==
    \/ Reset
    \/ CompletionRaises
    \/ CostUnreadable
    \/ CompletionSucceeds
    \/ StepAnyEnv
    \/ Return

SpecAnyEnv == Init /\ [][NextAnyEnv]_vars

\* the caller calls run again, with the same agent and the same environment: the
\* locals of the run that ended are gone, the environment and the agent are kept
RunAgain ==
    /\ pc \in {"returned", "raised"}
    /\ runs < MaxRuns
    /\ runs' = runs + 1
    /\ pc' = "start"
    /\ task_index' \in TaskInputs
    /\ max_num_steps' \in 0 .. MaxSteps
    /\ turn' = 0
    /\ attempts' = 0
    /\ res' = NoRes
    /\ messages' = <<>>
    /\ agent_cost' = 0
    /\ reward' = 0
    /\ env_info' = EmptyInfo
    /\ result' = NoResult
    /\ stepLog' = <<>>
    /\ UNCHANGED <<envState, envReward, tools_info, lastReset, toolCall, peer>>

\* any number of runs, one after the other, on one environment
NextRuns ==
    \/ Next
    \/ RunAgain

SpecRuns == Init /\ [][NextRuns]_vars

\* The second call of run, in another thread, on the same agent object. Its history,
\* cost, reward and info are locals of that call and its environment is its own: of
\* these the model keeps its position and, until it is stepped, the name of its
\* decoded action; its max_num_steps is an argument of its own, any number, so its
\* loop may end after any turn. It shares self.tools_info with the first call.
\* trimmed: it trimmed the invocations of a turn while the first call was in its loop.
PeerStart ==
    /\ peer.pc = "none"
    /\ peer' = [peer EXCEPT !.pc = "start"]
    /\ UNCHANGED <<runVars, toolCall>>

\* lines 49-57 of the second call
PeerReset ==
    /\ peer.pc = "start"
    /\ \E more \in BOOLEAN :
          peer' = [peer EXCEPT !.pc = IF more THEN "complete" ELSE "return"]
    /\ UNCHANGED <<runVars, toolCall>>

\* lines 59-73 of the second call: the completion is given self.tools_info
PeerCompletion ==
    /\ peer.pc = "complete"
    /\ \E name \in { convert_message_to_action(m).name : m \in ModelTurns } :
          peer' = [peer EXCEPT !.pc = "step",
                               !.action = name,
                               !.tools = ToolsGiven(tools_info)]
    /\ UNCHANGED <<runVars, toolCall>>

\* lines 74-98 of the second call, against its own environment
PeerStep ==
    /\ peer.pc = "step"
    /\ LET action == [name |-> peer.action]
       IN \E env_response \in EnvStep(action, 0), more \in BOOLEAN :
            IF env_response.raised
            THEN /\ peer' = [peer EXCEPT !.pc = "raised", !.action = "none"]
                 /\ UNCHANGED tools_info
            ELSE /\ tools_info' = AfterTrim(tools_info, action)
                 /\ peer' = [peer EXCEPT
                        !.pc = IF env_response.done \/ ~more THEN "return" ELSE "complete",
                        !.action = "none",
                        !.trimmed = \/ peer.trimmed
                                    \/ /\ action.name # RESPOND
                                       /\ pc \in {"complete", "step"}]
    /\ UNCHANGED <<pc, task_index, max_num_steps, turn, attempts, res, messages, agent_cost,
                   reward, env_info, result, envState, envReward, stepLog, lastReset, runs,
                   toolCall>>

\* lines 100-105 of the second call
PeerReturn ==
    /\ peer.pc = "return"
    /\ peer' = [peer EXCEPT !.pc = "returned"]
    /\ UNCHANGED <<runVars, toolCall>>

\* two calls of run on one agent object, their steps interleaved in any order
NextConcurrent ==
    \/ Next
    \/ PeerStart
    \/ PeerReset
    \/ PeerCompletion
    \/ PeerStep
    \/ PeerReturn

SpecConcurrent == Init /\ [][NextConcurrent]_vars

\* the invocations explored: a capability and arguments that bind to its parameters
InvokeInputs ==
    UNION { { [op |-> "invoke", tool |-> cap.name, given |-> kwargs, outcome |-> "pending"] :
                kwargs \in [cap.params -> ArgKinds] } : cap \in Capabilities }

\* the failed queries and error messages explored, both strings
OptimizeInputs ==
    { [op |-> "optimize", tool |-> EnhancedQueryOptimizer.name,
       given |-> [error |-> error_lower, extract |-> extract], outcome |-> "pending"] :
        error_lower \in SUBSET ErrorMarkers, extract \in BOOLEAN }

\* the queries explored, strings
ValidateInputs ==
    { [op |-> "validate", tool |-> QueryValidator.name, given |-> query,
       outcome |-> "pending"] :
        query \in { q \in SUBSET Fragments : Cardinality(q) <= MaxFragments } }

CapabilityNamed(name) == CHOOSE cap \in Capabilities : cap.name = name

\* an invocation is about to be made
InitTools ==
    /\ InitRun
    /\ peer = NoPeer
    /\ \/ toolCall \in InvokeInputs
       \/ toolCall \in OptimizeInputs
       \/ toolCall \in ValidateInputs

\* Env.step invokes a capability with the arguments of the action, unvalidated
InvokeCapability ==
    /\ toolCall.op = "invoke"
    /\ toolCall.outcome = "pending"
    /\ toolCall' = [toolCall EXCEPT
                       !.outcome = invoke(CapabilityNamed(toolCall.tool), toolCall.given)]
    /\ UNCHANGED <<runVars, peer>>

\* EnhancedQueryOptimizer.invoke(failed_query, error_message), both strings
InvokeEnhancedQueryOptimizer ==
    /\ toolCall.op = "optimize"
    /\ toolCall.outcome = "pending"
    /\ toolCall' = [op |-> "optimize", tool |-> toolCall.tool, given |-> toolCall.given,
                    outcome |-> "observation",
                    error_category |-> ClassifyError(toolCall.given.error),
                    fix |-> FixApplied(toolCall.given.error, toolCall.given.extract)]
    /\ UNCHANGED <<runVars, peer>>

\* QueryValidator.invoke(sql_query), a string
InvokeQueryValidator ==
    /\ toolCall.op = "validate"
    /\ toolCall.outcome = "pending"
    /\ LET issues == IssuesOf(toolCall.given)
       IN toolCall' = [op |-> "validate", tool |-> toolCall.tool, given |-> toolCall.given,
                       outcome |-> "observation",
                       is_valid |-> IsValid(issues),
                       issues |-> issues,
                       suggestions |-> SuggestionsOf(issues)]
    /\ UNCHANGED <<runVars, peer>>

\* the invocation of the capability
NextTools ==
    \/ InvokeCapability
    \/ InvokeEnhancedQueryOptimizer
    \/ InvokeQueryValidator

SpecTools == InitTools /\ [][NextTools]_vars

\* run with every call it makes returning or raising in the end, and with a completion
\* that does not fail forever: an attempt that can succeed again and again succeeds
Fairness ==
    /\ WF_vars(Reset)
    /\ SF_vars(CompletionSucceeds)
    /\ WF_vars(Step)
    /\ WF_vars(Return)

SpecFair == Init /\ [][Next]_vars /\ Fairness

---------------------------------------------------------------------------
(* Properties *)

Last(seq) == seq[Len(seq)]
Returned == pc = "returned"
NoStepRaised == \A i \in 1 .. Len(stepLog) : ~stepLog[i].raised
SomeStepDone == \E i \in 1 .. Len(stepLog) : stepLog[i].done

\* C1: run makes at most max_num_steps env.step calls, and the first step that reports
\* done is the last one: after it run is at its return statement or has returned, so
\* no completion and no env.step follows.
C1_StepBudgetAndStopOnDone ==
    /\ Len(stepLog) <= max_num_steps
    /\ \A i \in 1 .. Len(stepLog) :
          stepLog[i].done => /\ i = Len(stepLog)
                             /\ pc \in {"return", "returned"}
    /\ Returned => result # NoResult

\* a run that stopped on done with budget left
C1_Witness ==
    /\ Returned
    /\ Len(stepLog) >= 1
    /\ Last(stepLog).done
    /\ Len(stepLog) < max_num_steps

\* C2: the reward of the AgentRunResult is 0 when no step was executed and the reward
\* of the last executed step otherwise.
C2_RewardLatched ==
    Returned =>
        result.reward = IF stepLog = <<>> THEN 0 ELSE Last(stepLog).reward

\* a run whose first step reported 0.8 and whose last step reported 0
C2_Witness ==
    /\ Returned
    /\ Len(stepLog) = 2
    /\ stepLog[1].reward = 8
    /\ stepLog[2].reward = 0
    /\ result.reward = 0

\* the info mappings a run received, in order: reset's, then one per step
InfosReceived ==
    << EnvReset(task_index).info >> \o [i \in 1 .. Len(stepLog) |-> stepLog[i].info]

\* the position of the latest mapping of `infos` that reports key k
LatestWith(infos, k) ==
    CHOOSE i \in 1 .. Len(infos) :
        /\ k \in DOMAIN infos[i]
        /\ \A j \in (i + 1) .. Len(infos) : k \notin DOMAIN infos[j]

\* C3: the info of the AgentRunResult has exactly the keys reported by reset or by some
\* step, each with the value of the latest mapping that reports it.
C3_InfoLastWriteWins ==
    Returned =>
        /\ DOMAIN result.info =
               UNION { DOMAIN InfosReceived[i] : i \in 1 .. Len(InfosReceived) }
        /\ \A k \in DOMAIN result.info :
               result.info[k] = InfosReceived[LatestWith(InfosReceived, k)][k]

\* reset reported task; step 1 reported task and source; step 2 reported source alone,
\* with another value
C3_Witness ==
    /\ Returned
    /\ Len(stepLog) = 2
    /\ DOMAIN stepLog[1].info = {"task", "source"}
    /\ DOMAIN stepLog[2].info = {"source"}
    /\ stepLog[1].info["source"] # stepLog[2].info["source"]
    /\ stepLog[1].info["task"] # EnvReset(task_index).info["task"]
    /\ result.info["task"] = stepLog[1].info["task"]
    /\ result.info["source"] = stepLog[2].info["source"]

\* the assistant message recorded for step i, and the message recorded after it
\* (the history starts with the system and the user message, and every step that
\* returned appended two messages)
AssistantOf(i) == messages[2 * i + 1]
ReplyOf(i) == messages[2 * i + 2]
StepsRecorded == { i \in 1 .. Len(stepLog) : ~stepLog[i].raised }

\* C4 (as claimed): for every turn proposing k >= 1 invocations, the recorded assistant
\* message carries exactly the first one, whatever the turn decodes to; no recorded
\* assistant message carries more than one.
C4_SingleInvocationRecorded ==
    /\ \A i \in StepsRecorded :
          Len(stepLog[i].message.tool_calls) >= 1 =>
              AssistantOf(i).tool_calls = << stepLog[i].message.tool_calls[1] >>
    /\ \A j \in 1 .. Len(messages) :
          messages[j].role = "assistant" => Len(messages[j].tool_calls) <= 1

FirstTurnAnswered ==
    /\ Returned
    /\ Len(stepLog) = 1
    /\ stepLog[1].action.name = RESPOND
    /\ stepLog[1].done

Roles(msgs) == [j \in 1 .. Len(msgs) |-> msgs[j].role]

\* C6 (as claimed): such a run returns 3 messages, system, user, assistant, and the
\* reward of that step.
C6_ThreeMessages ==
    FirstTurnAnswered =>
        /\ Roles(result.messages) = << "system", "user", "assistant" >>
        /\ result.reward = stepLog[1].reward

\* C6 (amended): such a run returns 4 messages, system, user, assistant, user, the last
\* one carrying the observation of the step, and the reward of that step.
C6_FourMessages ==
    FirstTurnAnswered =>
        /\ Roles(result.messages) = << "system", "user", "assistant", "user" >>
        /\ result.messages[1] = SystemMessage
        /\ result.messages[2] = UserMessage(EnvReset(task_index).observation)
        /\ result.messages[3] = stepLog[1].message
        /\ result.messages[4] = UserMessage(stepLog[1].observation)
        /\ result.reward = stepLog[1].reward

\* the first Respond scored 0.8
C6_Witness ==
    /\ FirstTurnAnswered
    /\ stepLog[1].message.tool_calls = <<>>
    /\ result.reward = 8
    /\ Len(result.messages) = 4

\* run returned after max_num_steps >= 1 steps none of which reported done
BudgetExhausted ==
    /\ Returned
    /\ max_num_steps >= 1
    /\ Len(stepLog) = max_num_steps
    /\ ~SomeStepDone

\* the record of a timeout in an info mapping
TimeoutRecorded(info) ==
    \/ "done" \in DOMAIN info /\ info["done"] = "false"
    \/ "timeout" \in DOMAIN info

\* C7 (as claimed): a run that exhausted its budget returns an info that records the
\* timeout, and the reward of its last step.
C7_TimeoutInInfo ==
    BudgetExhausted =>
        /\ TimeoutRecorded(result.info)
        /\ result.reward = IF stepLog = <<>> THEN 0 ELSE Last(stepLog).reward

\* C8: an error of env.reset or env.step ends run without an AgentRunResult: reset
\* raises for an index out of range, step raises for a capability the catalogue does
\* not have; a raising step is the last one, nothing is recorded for it, and run takes
\* no further step after the error.
C8_ProtocolErrorsFatal ==
    /\ (task_index \notin ValidTasks /\ pc # "start") =>
           /\ pc = "raised"
           /\ messages = <<>>
           /\ stepLog = <<>>
    /\ \A i \in 1 .. Len(stepLog) :
           /\ stepLog[i].action.name \notin ToolNames \cup {RESPOND} => stepLog[i].raised
           /\ stepLog[i].raised =>
                 /\ i = Len(stepLog)
                 /\ pc = "raised"
                 /\ Len(messages) = 2 * i
    /\ pc = "raised" => /\ result = NoResult
                        /\ ~ENABLED Next

\* the second turn invoked an unknown capability
C8_Witness ==
    /\ pc = "raised"
    /\ Len(stepLog) = 2
    /\ stepLog[2].raised
    /\ stepLog[2].action.name = UnknownTool
    /\ Len(messages) = 4

\* C9: a failing invocation of a capability of the catalogue is a step that returns:
\* not done, its observation is the text of the failure, the history records it as the
\* tool-result message of the retained invocation, and run goes on to the next turn
\* unless the budget is used up.
C9_ToolFailureIsData ==
    \A i \in 1 .. Len(stepLog) :
        stepLog[i].failed =>
            /\ ~stepLog[i].raised
            /\ ~stepLog[i].done
            /\ stepLog[i].observation = ToolObservation(TRUE)
            /\ ReplyOf(i) = [role |-> "tool",
                             tool_call_id |-> stepLog[i].message.tool_calls[1].id,
                             name |-> stepLog[i].action.name,
                             content |-> stepLog[i].observation]
            /\ i = Len(stepLog) =>
                  pc \in IF i < max_num_steps THEN {"complete", "step"}
                                              ELSE {"return", "returned"}

\* the first invocation failed and run took a second step
C9_Witness ==
    /\ Len(stepLog) = 2
    /\ stepLog[1].failed
    /\ ~stepLog[2].raised
    /\ ReplyOf(1).content = ToolObservation(TRUE)

\* C10: a failed completion attempt changes nothing of the history, the cost, the
\* reward, the info and the step log and leaves run at the completion call; run leaves
\* the completion call only with a response whose cost was added.
C10_CompletionFailuresTransparent ==
    [][ /\ attempts' > attempts =>
             /\ messages' = messages
             /\ agent_cost' = agent_cost
             /\ reward' = reward
             /\ env_info' = env_info
             /\ stepLog' = stepLog
             /\ turn' = turn
             /\ result' = result
             /\ pc' = "complete"
        /\ (pc = "complete" /\ pc' # "complete") =>
             /\ pc' = "step"
             /\ res'.cost >= 0
             /\ agent_cost' = agent_cost + res'.cost
             /\ messages' = messages
      ]_vars

\* two failed attempts in a row in the second turn
C10_Witness ==
    /\ pc = "complete"
    /\ attempts >= 2
    /\ Len(stepLog) = 1
    /\ agent_cost > 0
    /\ res.cost = -1

---------------------------------------------------------------------------
(* Properties of the environment's states and of runs that follow one another *)

EnvStates == {"UNINITIALIZED", "ACTIVE", "TERMINATED"}

\* a step of run that is a call of env.reset that returned
ResetReturns == pc = "start" /\ pc' \notin {"start", "raised"}

\* a step of run that is a call of env.step that returned
StepReturns == pc = "step" /\ Len(stepLog') = Len(stepLog) + 1 /\ ~Last(stepLog').raised

PriorReward(i) == IF i = 1 THEN 0 ELSE stepLog[i - 1].reward

AllInvoke ==
    \A i \in 1 .. Len(stepLog) : ~stepLog[i].raised /\ stepLog[i].action.name # RESPOND

\* C13: a step on an Invoke action reports the reward the previous step reported (0
\* for the first step of the episode); a run whose steps are all Invoke returns the
\* reward 0.
C13_InvokeKeepsReward ==
    /\ \A i \in 1 .. Len(stepLog) :
          (~stepLog[i].raised /\ stepLog[i].action.name # RESPOND) =>
              stepLog[i].reward = PriorReward(i)
    /\ (AllInvoke /\ pc \in {"complete", "step", "return"}) => reward = 0
    /\ (AllInvoke /\ Returned) => result.reward = 0

\* a run of MaxSteps Invoke steps has returned
C13_Witness ==
    /\ Returned
    /\ Len(stepLog) = MaxSteps
    /\ AllInvoke
    /\ result.reward = 0

IsPrefix(s, t) == Len(s) <= Len(t) /\ SubSeq(t, 1, Len(s)) = s

\* C14: a step that returns appends exactly two messages to the history: for an
\* Invoke action the assistant message with its first invocation alone, then a tool
\* message with the observation and the id and name of that invocation; for a Respond
\* action the assistant message, then a user message with the observation.
C14_TwoMessagesPerStep ==
    [][ StepReturns =>
          LET e == Last(stepLog')
              n == Len(messages)
          IN /\ Len(messages') = n + 2
             /\ IsPrefix(messages, messages')
             /\ messages'[n + 1].role = "assistant"
             /\ messages'[n + 1].content = e.message.content
             /\ IF e.action.name # RESPOND
                THEN /\ messages'[n + 1].tool_calls = << e.message.tool_calls[1] >>
                     /\ messages'[n + 2] =
                           [role |-> "tool",
                            tool_call_id |-> e.message.tool_calls[1].id,
                            name |-> e.action.name,
                            content |-> e.observation]
                ELSE /\ messages'[n + 1] = e.message
                     /\ messages'[n + 2] = [role |-> "user", content |-> e.observation]
      ]_vars

\* an Invoke step of a turn with several invocations, then a Respond step
C14_Witness ==
    /\ Len(stepLog) = 2
    /\ NoStepRaised
    /\ stepLog[1].action.name = KnownTool
    /\ Len(stepLog[1].message.tool_calls) = MaxCalls
    /\ stepLog[2].action.name = RESPOND
    /\ Len(messages) = 6
    /\ messages[4].role = "tool"
    /\ messages[6].role = "user"

\* the run has a history: reset has returned
Seeded == pc \in {"complete", "step", "return", "returned"}

\* C15: the history only grows at its end; once reset has returned its first two
\* messages are the system message with the instruction and the user message with the
\* observation of reset; the messages of the result are the history at loop exit.
C15_HistoryAppendOnly ==
    /\ [](/\ Seeded =>
               /\ Len(messages) >= 2
               /\ messages[1] = [role |-> "system", content |-> Instruction]
               /\ messages[2] = [role |-> "user", content |-> lastReset.observation]
          /\ Returned => result.messages = messages)
    /\ [][IsPrefix(messages, messages')]_vars

\* a run of two steps has returned its six messages
C15_Witness ==
    /\ Returned
    /\ NoStepRaised
    /\ Len(stepLog) = 2
    /\ Len(result.messages) = 6
    /\ result.messages[3].role = "assistant"

\* the completion call returns a response
CompletionReturns == pc = "complete" /\ res' # res

\* C16: reset comes first; every turn goes completion, decode, env.step, history
\* update, in this order; a completion is called only when the steps of all earlier
\* turns have returned and are in the history, and the history the completion of turn
\* n is given holds the assistant message and the observation of every turn before n.
C16_StrictSequencing ==
    /\ [](/\ \A n \in 1 .. Len(stepLog) :
                /\ stepLog[n].action = convert_message_to_action(stepLog[n].message)
                /\ Len(stepLog[n].given) = 2 * n
                /\ IsPrefix(stepLog[n].given, messages)
                /\ \A j \in 1 .. (n - 1) :
                      /\ stepLog[n].given[2 * j + 1].role = "assistant"
                      /\ stepLog[n].given[2 * j + 1].content = stepLog[j].message.content
                      /\ stepLog[n].given[2 * j + 2].content = stepLog[j].observation
          /\ pc = "step" => /\ res.given = messages
                            /\ Len(stepLog) = turn
                            /\ Len(messages) = 2 + 2 * turn
          /\ pc = "start" => messages = <<>> /\ stepLog = <<>> /\ res = NoRes)
    /\ [][ /\ pc = "start" => pc' \in {"complete", "return", "raised"}
           /\ pc = "complete" => pc' \in {"complete", "step"}
           /\ pc = "step" => pc' \in {"complete", "return", "raised"}
           /\ pc = "return" => pc' = "returned"
           /\ CompletionReturns =>
                 /\ Len(stepLog) = turn
                 /\ NoStepRaised
                 /\ Len(messages) = 2 + 2 * turn
                 /\ res'.given = messages
           /\ stepLog' # stepLog => pc = "step" /\ Len(stepLog') = Len(stepLog) + 1
           /\ messages' # messages => pc = "start" \/ StepReturns
         ]_vars

\* the second completion of a run was given the messages of the first turn
C16_Witness ==
    /\ Len(stepLog) = 2
    /\ NoStepRaised
    /\ Len(stepLog[2].given) = 4
    /\ stepLog[2].given[3].role = "assistant"
    /\ stepLog[2].given[4].content = stepLog[1].observation
    /\ stepLog[1].action.name = KnownTool

\* C17: the catalogue the completion calls are given is the same value on every call,
\* the calls that are retried included, and nothing run does changes the agent's
\* catalogue: not the trimming of the invocations, and not the start of a further run.
C17_CatalogueFixed ==
    /\ [](/\ tools_info = Catalogue
          /\ res # NoRes => res.tools = Catalogue
          /\ \A i \in 1 .. Len(stepLog) : stepLog[i].tools = Catalogue)
    /\ [][tools_info' = tools_info]_vars

\* a turn with several invocations was trimmed, and a later completion was retried
C17_Witness ==
    /\ Len(stepLog) = 1
    /\ ~stepLog[1].raised
    /\ stepLog[1].action.name = KnownTool
    /\ Len(stepLog[1].message.tool_calls) = MaxCalls
    /\ Len(messages[3].tool_calls) = 1
    /\ pc = "complete"
    /\ attempts >= 1
    /\ res.cost = -1
    /\ res.tools = Catalogue

Proposed(i) == stepLog[i].message.tool_calls
IsInvokeOfFirst(i) ==
    /\ stepLog[i].action.kind = "invoke"
    /\ stepLog[i].action.name = Proposed(i)[1].name
    /\ stepLog[i].action.arguments = Proposed(i)[1].arguments
IsRespondOfContent(i) ==
    /\ stepLog[i].action.kind = "respond"
    /\ stepLog[i].action.name = RESPOND
    /\ stepLog[i].action.content = stepLog[i].message.content

FirstMalformed(i) == Len(Proposed(i)) >= 1 /\ Proposed(i)[1].name = NoName

\* C19: every turn the model can return decodes to one action, Invoke or Respond; a
\* turn whose first invocation has no name decodes to Respond with the content of the
\* turn; every decoded turn is stepped, and the step of a malformed turn is the step of
\* a Respond action, which the environment answers.
C19_DecoderTotal ==
    /\ \A m \in ModelTurns : convert_message_to_action(m).kind \in {"invoke", "respond"}
    /\ pc = "step" => ENABLED Step
    /\ \A i \in 1 .. Len(stepLog) :
          FirstMalformed(i) => IsRespondOfContent(i) /\ ~stepLog[i].raised

\* a turn of several invocations, the first without a name, was stepped as Respond
C19_Witness ==
    /\ Len(stepLog) = 1
    /\ FirstMalformed(1)
    /\ Len(Proposed(1)) = MaxCalls
    /\ stepLog[1].action.name = RESPOND
    /\ stepLog[1].done
    /\ Returned

RECURSIVE SumCosts(_)
\* the costs of the completions the steps of the run consumed, added up
SumCosts(log) == IF log = <<>> THEN 0 ELSE SumCosts(SubSeq(log, 1, Len(log) - 1)) + Last(log).cost

Distance(a, b) == IF a >= b THEN a - b ELSE b - a

\* C20 (as claimed): the cost of the result is the sum of the costs of the consumed
\* completions.
C20_CostIsSum ==
    Returned => result.agent_cost = SumCosts(stepLog)

\* C20 (amended): the running cost starts at 0 and is the sum of the costs of the
\* completions consumed so far, one per turn; an attempt that fails adds nothing; the
\* cost of the result is that sum rounded to 8 decimals (a multiple of 10 units, at
\* most 5 units from the sum), and 0 when no turn was executed.
C20_CostIsRoundedSum ==
    /\ [](/\ pc = "start" => agent_cost = 0
          /\ pc \in {"complete", "return", "returned"} => agent_cost = SumCosts(stepLog)
          /\ pc = "step" => agent_cost = SumCosts(stepLog) + res.cost
          /\ Returned => /\ result.agent_cost % 10 = 0
                         /\ Distance(result.agent_cost, SumCosts(stepLog)) <= 5
                         /\ stepLog = <<>> => result.agent_cost = 0)
    /\ [][ /\ (pc = "complete" /\ pc' = "complete") => agent_cost' = agent_cost
           /\ (pc = "complete" /\ pc' = "step") => agent_cost' = agent_cost + res'.cost
           /\ pc # "complete" => agent_cost' = agent_cost
         ]_vars

\* a run returned a rounded cost that is not the sum of its completions' costs
C20_Witness ==
    /\ Returned
    /\ Len(stepLog) = 2
    /\ SumCosts(stepLog) = 11
    /\ result.agent_cost = 10

---------------------------------------------------------------------------
(* Properties of the retry loop and of the loop's exit *)

Ended == pc \in {"returned", "raised"}

\* C22 (as claimed): when in every turn some completion attempt succeeds in the end,
\* run returns a RunResult.
C22_ReturnsWhenCompletionsSucceed == <>Returned

\* C22 (amended): a completion that fails is called again, at the same place of the
\* same turn, whatever the number of failed attempts, and run leaves the retry loop
\* only with a completion that succeeded: while the completion fails run neither
\* returns nor raises. When in every turn some attempt succeeds in the end, run ends
\* after at most max_num_steps turns, with a RunResult or with the error env.reset or
\* env.step raised.
C22_RetryUntilSuccess ==
    /\ <>Ended
    /\ [](turn <= max_num_steps /\ Len(stepLog) <= max_num_steps)
    /\ [][ /\ attempts' > attempts =>
                /\ pc = "complete" /\ pc' = "complete"
                /\ turn' = turn
                /\ result' = NoResult
           /\ (pc = "complete" /\ pc' # "complete") => (pc' = "step" /\ res'.cost >= 0)
         ]_vars

\* the completion of the second turn has failed MaxFail times in a row
C22_Witness ==
    /\ pc = "complete"
    /\ attempts = MaxFail
    /\ turn = 1
    /\ Len(stepLog) = 1
    /\ max_num_steps >= 2

\* C24: the done flag of the step decides the exit of the loop, not the action: after a
\* step on a Respond action that reports done = false, with budget left, the
\* observation is recorded as a user message and a further model turn runs; a step that
\* reports done = true is the last one, whatever its action.
C24_ExitOnDoneAlone ==
    \A i \in 1 .. Len(stepLog) :
        ~stepLog[i].raised =>
            /\ stepLog[i].done => (i = Len(stepLog) /\ pc \in {"return", "returned"})
            /\ (~stepLog[i].done /\ stepLog[i].action.name = RESPOND) =>
                  /\ ReplyOf(i) = [role |-> "user", content |-> stepLog[i].observation]
                  /\ (i < max_num_steps /\ i = Len(stepLog)) => pc \in {"complete", "step"}
                  /\ i = max_num_steps => pc \in {"return", "returned"}

\* a Respond step reported done = false and the loop ran a second turn, an Invoke, whose
\* step reported done = true and ended the loop
C24_Witness ==
    /\ Len(stepLog) = 2
    /\ stepLog[1].action.name = RESPOND
    /\ ~stepLog[1].raised /\ ~stepLog[1].done
    /\ stepLog[2].action.name = KnownTool
    /\ ~stepLog[2].raised /\ stepLog[2].done
    /\ ReplyOf(1).role = "user"
    /\ Returned

\* the run is between two iterations of the loop, or past the loop
AtLoopBoundary == (pc = "complete" /\ attempts = 0) \/ pc \in {"return", "returned"}

StepCalls == Len(stepLog)
CompletionsConsumed ==
    Cardinality({ i \in 1 .. Len(stepLog) : stepLog[i].cost >= 0 })
        + (IF pc = "step" THEN 1 ELSE 0)
AssistantMessages == Cardinality({ j \in 1 .. Len(messages) : messages[j].role = "assistant" })

\* C25: at every loop boundary the env.step calls made, the completions consumed and
\* the assistant messages of the history are equally many, and the history has
\* 2 + 2 * that many messages; a returned result has an even number of messages, from 2
\* to 2 + 2 * max_num_steps.
C25_OneTransitionPerTurn ==
    /\ AtLoopBoundary =>
          /\ StepCalls = CompletionsConsumed
          /\ StepCalls = AssistantMessages
          /\ StepCalls = turn
          /\ Len(messages) = 2 + 2 * StepCalls
    /\ Returned =>
          /\ Len(result.messages) % 2 = 0
          /\ Len(result.messages) >= 2
          /\ Len(result.messages) <= 2 + 2 * max_num_steps

\* a run that used its whole budget returned the longest history
C25_Witness ==
    /\ Returned
    /\ max_num_steps = MaxSteps
    /\ StepCalls = MaxSteps
    /\ AssistantMessages = MaxSteps
    /\ Len(result.messages) = 2 + 2 * MaxSteps

\* message j carries at least one capability invocation
CarriesInvocation(j) == messages[j].role = "assistant" /\ Len(messages[j].tool_calls) >= 1

\* C26 (as claimed): every assistant message that carries an invocation is directly
\* followed by a tool message with the id of that invocation, and every tool message
\* directly follows such an assistant message, also for a turn whose first invocation
\* is malformed.
C26_HistoryWellFormed ==
    \A j \in 1 .. Len(messages) :
        /\ CarriesInvocation(j) =>
              /\ j < Len(messages)
              /\ messages[j + 1].role = "tool"
              /\ messages[j + 1].tool_call_id = messages[j].tool_calls[1].id
        /\ messages[j].role = "tool" =>
              /\ j > 1
              /\ CarriesInvocation(j - 1)
              /\ messages[j].tool_call_id = messages[j - 1].tool_calls[1].id

\* a response whose cost cannot be read is returned by the completion call
CostFails == pc = "complete" /\ res' # res /\ res'.cost < 0

\* C27: when the completion returns a response whose cost cannot be added, run stays at
\* the completion call of the same turn: the response is not decoded, not stepped and
\* not recorded, the cost, the history, the reward and the info are as before, and the
\* next attempt is given the same history; a response is decoded only after its cost
\* was added.
C27_CostFailureRetries ==
    /\ [](/\ pc = "step" => res.cost >= 0
          /\ \A i \in 1 .. Len(stepLog) : stepLog[i].cost >= 0
          /\ (pc = "complete" /\ res # NoRes /\ res.cost < 0) =>
                /\ attempts >= 1
                /\ res.given = CompletionInput(messages))
    /\ [][ CostFails =>
             /\ pc' = "complete"
             /\ attempts' = attempts + 1
             /\ agent_cost' = agent_cost
             /\ messages' = messages
             /\ stepLog' = stepLog
             /\ turn' = turn
             /\ reward' = reward
             /\ env_info' = env_info
             /\ res'.given = CompletionInput(messages)
         ]_vars

\* in the second turn a response that proposes invocations was discarded for its cost
C27_Witness ==
    /\ pc = "complete"
    /\ attempts = 1
    /\ res.cost < 0
    /\ Len(res.tool_calls) = MaxCalls
    /\ Len(stepLog) = 1
    /\ ~stepLog[1].raised
    /\ agent_cost = stepLog[1].cost
    /\ Len(messages) = 4

---------------------------------------------------------------------------
(* Properties of the catalogue and of the capabilities *)

\* C21 (as claimed): whatever arguments a capability is invoked with, invoke returns a
\* string; no error leaves it.
C21_CapabilitiesNeverRaise ==
    toolCall.op = "invoke" => toolCall.outcome # "raises"

NamesOf(tools) == { tools[i] : i \in DOMAIN tools }

\* the tools of the baseline environment
CoreTools ==
    { "sql_db_list_tables", "sql_db_schema", "value_substring_search", "sql_db_query" }

\* C23 (as claimed): the catalogue the agent is given holds advanced_query_fixer and
\* query_complexity_analyzer besides the six tools added before: 8 added tools.
C23_AdvancedToolsInCatalogue ==
    /\ { "advanced_query_fixer", "query_complexity_analyzer", "clinical_term_mapper",
         "analyze_user_query", "smart_schema_assistant", "query_validator",
         "query_optimizer", "execution_helper" } \subseteq NamesOf(tools_info)
    /\ Cardinality(NamesOf(tools_info) \ CoreTools) = 8

\* C29 (as claimed): the error class EnhancedQueryOptimizer reports is the class of
\* the one fix it applies.
C29_CategoryMatchesFix ==
    (toolCall.op = "optimize" /\ toolCall.outcome = "observation") =>
        toolCall.error_category = toolCall.fix

\* entry i of the issues is a wrong column reference / a missing join
WrongColumns ==
    { "labevents.label", "admission_time", "procedures_icd.long_title",
      "chartevents.label", "inputevents.eventtime" }
LabJoinMissing(query) ==
    /\ Contains(query, "labevents") /\ Contains(query, "label")
    /\ ~Contains(query, "d_labitems")
ProcedureJoinMissing(query) ==
    /\ Contains(query, "procedures_icd")
    /\ Contains(query, "title") \/ Contains(query, "name")
    /\ ~Contains(query, "d_icd_procedures")

---------------------------------------------------------------------------
(* Properties of runs that share the agent object *)

\* C28: with a second call of run going on in any interleaving, every step either is a
\* step of the first call taken as it takes it alone, or leaves the first call's
\* history, cost, reward, info and environment and the agent object as they are; the
\* agent's catalogue is never written, and both calls are given the same catalogue.
C28_RunsIsolated ==
    /\ [](/\ tools_info = Catalogue
          /\ res # NoRes => res.tools = Catalogue
          /\ peer.tools # <<>> => peer.tools = Catalogue)
    /\ [][Next \/ UNCHANGED runVars]_vars

\* the second call trimmed the invocations of a turn while the first call was in its
\* loop, and the first call returned after two steps
C28_Witness ==
    /\ Returned
    /\ Len(stepLog) = 2
    /\ NoStepRaised
    /\ peer.pc = "returned"
    /\ peer.trimmed
    /\ peer.tools = Catalogue

====
